---- MODULE Spec2Model ----
(***************************************************************************)
(* Inkwell (src/App.tsx): the state of the App component and its event     *)
(* handlers, with the AI gateway (src/services/geminiService.ts) as an     *)
(* environment that answers every request with any outcome it can give.    *)
(*                                                                         *)
(* Every handler runs to completion on the single UI thread.  A handler    *)
(* that awaits the gateway is two actions: the part up to the await, which *)
(* leaves a pending request in `inflight`, and the continuation, which     *)
(* runs when the gateway settles that request.  Pending requests settle   *)
(* in any order.                                                           *)
(*                                                                         *)
(* Representation.                                                         *)
(*   - An id string 'c-' + n is the triple <<"c", i, f>>: the prefix and  *)
(*     the number printed after it.  Date.now() prints an integer i >= 1   *)
(*     (f = 0); Math.random() prints a value in [0, 1), the f-th of the    *)
(*     values it can return (i = 0, f = 0 is the value 0).  Two id         *)
(*     strings are equal iff their triples are.                            *)
(*   - A text (draft, scratchpad, file content) is its length: the only    *)
(*     thing the code reads of it; -1 is an absent (undefined) draft.      *)
(*   - imageUrl "" is an absent imageUrl; analysis "null" is null.         *)
(***************************************************************************)
EXTENDS Integers, Sequences, FiniteSets, TLC

\* ------------------------------------------------------------- bounds
MaxClock == 2       \* Date.now() reads 1..MaxClock
MaxRand == 2        \* Math.random() returns one of MaxRand values
MaxEntities == 2    \* characters and locations hold at most this many
MaxChapters == 2    \* chapters holds at most this many
MaxInflight == 2    \* gateway requests (and file reads) pending at once

\* The lengths of the texts the user types: one below the detector's minimum
\* length and inside its modulo window, and two above the minimum, on both
\* sides of the end of the window.
TextLens == {10, 369, 370}

\* The lengths typed into the scratchpad where the detector is checked:
\* around its minimum length and around both ends of its modulo window, in
\* the first windows.
BoundaryLens ==
  TextLens \cup {0, 19, 20, 50, 51, 349, 350, 368, 371, 699, 700, 719, 720}

RandVals == 0 .. (MaxRand - 1)

VARIABLES
  chapters,         \* useState<Chapter[]>
  characters,       \* useState<Character[]>
  locations,        \* useState<Location[]>
  lore,             \* useState<LoreEntry[]>
  analysis,         \* useState<StoryAnalysis | null>
  loading,          \* useState(false)
  scratchpadText,   \* useState('')
  suggestedEntity,  \* useState<{type, data} | null>
  focusedEntity,    \* useState<{type, id} | null>
  genId,            \* useState<string | null>
  now,              \* what Date.now() reads
  inflight,         \* the pending promises, in the order they were started
  last              \* history: the handler or continuation that ran last

vars == <<chapters, characters, locations, lore, analysis, loading,
          scratchpadText, suggestedEntity, focusedEntity, genId, now,
          inflight, last>>

\* ------------------------------------------------------------- values
NoId == <<"", 0, 0>>
NoText == -1

\* 'p-' + Date.now()
DateNowId(p, t) == <<p, t, 0>>

\* 'p-' + Math.random()
MathRandomId(p, r) == <<p, 0, r>>

NoFocus == [type |-> "none", id |-> NoId]
NoData == [found |-> FALSE, type |-> "none", name |-> "", description |-> "",
           id |-> NoId]
NoSuggestion == [type |-> "none", data |-> NoData]

\* A pending promise: a gateway request or a FileReader read.  History: its
\* entity was banished, edited, or a later detector firing has been answered
\* with a found entity, while it was pending.
Request(kind) == [kind |-> kind, type |-> "none", id |-> NoId,
                  text |-> NoText, banished |-> FALSE, edited |-> FALSE,
                  overtaken |-> FALSE]

Did(op) == [op |-> op, type |-> "none", id |-> NoId, chapterId |-> NoId,
            beatId |-> NoId, text |-> NoText, outcome |-> "none",
            response |-> "none", banished |-> FALSE, edited |-> FALSE,
            overtaken |-> FALSE]

RemoveAt(s, i) == SubSeq(s, 1, i - 1) \o SubSeq(s, i + 1, Len(s))

Range(s) == {s[i] : i \in 1 .. Len(s)}

\* ------------------------------------------------------------- Init
Init ==
  /\ chapters = <<>>
  /\ characters = <<>>
  /\ locations = <<>>
  /\ lore = <<>>
  /\ analysis = "null"
  /\ loading = FALSE
  /\ scratchpadText = 0
  /\ suggestedEntity = NoSuggestion
  /\ focusedEntity = NoFocus
  /\ genId = NoId
  /\ now = 1
  /\ inflight = <<>>
  /\ last = Did("init")

\* The clock moves between two events; several events can read the same
\* millisecond.
Tick ==
  /\ now < MaxClock
  /\ now' = now + 1
  /\ last' = Did("Tick")
  /\ UNCHANGED <<chapters, characters, locations, lore, analysis, loading,
                 scratchpadText, suggestedEntity, focusedEntity, genId,
                 inflight>>

\* ------------------------------------------------------------- creation
NewChapter(t) ==
  [id |-> DateNowId("ch", t), title |-> "New Chapter",
   beats |-> <<[id |-> DateNowId("b", t), title |-> "Opening Beat",
                description |-> "What happens next?", draft |-> NoText]>>]

NewCharacter(t) ==
  [id |-> DateNowId("c", t), name |-> "New Persona", role |-> "Protagonist",
   description |-> "", traits |-> <<>>, imageUrl |-> ""]

NewLocation(t) ==
  [id |-> DateNowId("l", t), name |-> "New Region", atmosphere |-> "Vivid",
   description |-> "", imageUrl |-> ""]

\* Add Chapter onClick
AddChapter ==
  /\ Len(chapters) < MaxChapters
  /\ chapters' = Append(chapters, NewChapter(now))
  /\ last' = Did("AddChapter")
  /\ UNCHANGED <<characters, locations, lore, analysis, loading,
                 scratchpadText, suggestedEntity, focusedEntity, genId, now,
                 inflight>>

\* Add Character onClick
AddCharacter ==
  /\ Len(characters) < MaxEntities
  /\ characters' = Append(characters, NewCharacter(now))
  /\ last' = Did("AddCharacter")
  /\ UNCHANGED <<chapters, locations, lore, analysis, loading,
                 scratchpadText, suggestedEntity, focusedEntity, genId, now,
                 inflight>>

\* Add Location onClick
AddLocation ==
  /\ Len(locations) < MaxEntities
  /\ locations' = Append(locations, NewLocation(now))
  /\ last' = Did("AddLocation")
  /\ UNCHANGED <<chapters, characters, lore, analysis, loading,
                 scratchpadText, suggestedEntity, focusedEntity, genId, now,
                 inflight>>

\* ------------------------------------------------------------- detector
\* A detector whose modulo window includes its end.
SentinelFiresInclusive(len) == len > 50 /\ len % 350 <= 20

\* The condition under which sentinelCheck calls the gateway.
SentinelFires(len) == len > 50 /\ len % 350 < 20

\* sentinelCheck up to its await: the pending requests after it.
sentinelCheck(text, pending) ==
  IF SentinelFires(text) THEN Append(pending, Request("chat")) ELSE pending

\* What the gateway can answer to the detector's chat request, once parsed:
\* nothing found, or a character or a location.  The answer carries an id of
\* the gateway's own; the code never reads it, which covers an answer
\* without one.
ChatData ==
  {[NoData EXCEPT !.type = "character"]}
    \cup {[found |-> TRUE, type |-> ty, name |-> "Thorne",
            description |-> "A wandering smith", id |-> <<"ai", 0, 0>>] :
             ty \in {"character", "location"}}

\* How the chat request settles: the request fails, the text is undefined or
\* empty (parsed as {}), the text is not JSON, or it parses to a ChatData.
ChatOutcomes ==
  {[kind |-> k, data |-> NoData] : k \in {"reject", "empty", "malformed"}}
    \cup {[kind |-> "json", data |-> d] : d \in ChatData}

\* A detector that drops the held suggestion when it finds nothing.
SuggestionAfterCleared(prev, out) ==
  IF out.kind = "json" /\ out.data.found
    THEN [type |-> out.data.type, data |-> out.data]
    ELSE NoSuggestion

\* The held suggestion after the detector's answer: setSuggestedEntity is
\* reached only with a parsed answer whose found field is truthy.
SuggestionAfter(prev, out) ==
  IF out.kind = "json" /\ out.data.found
    THEN [type |-> out.data.type, data |-> out.data]
    ELSE prev

\* What the detector's continuation gets: a failure, an empty or unparsable
\* text, or a parsed answer with or without a found entity.
ChatResponse(out) ==
  IF out.kind # "json" THEN out.kind
  ELSE IF out.data.found THEN "found" ELSE "notfound"

\* History: when the i-th request is answered with a found entity, the chat
\* requests fired before it and still pending are marked.
MarkOvertaken(pending, i, out) ==
  [k \in 1 .. Len(pending) |->
     IF k < i /\ pending[k].kind = "chat" /\ ChatResponse(out) = "found"
       THEN [pending[k] EXCEPT !.overtaken = TRUE]
       ELSE pending[k]]

\* A detector that inscribes what it finds without waiting for the user.
SentinelResolveInscribing(i, out) ==
  /\ i \in 1 .. Len(inflight)
  /\ inflight[i].kind = "chat"
  /\ inflight' = RemoveAt(MarkOvertaken(inflight, i, out), i)
  /\ suggestedEntity' = SuggestionAfter(suggestedEntity, out)
  /\ characters' =
       IF ChatResponse(out) = "found" /\ Len(characters) < MaxEntities
         THEN Append(characters,
                     [id |-> DateNowId("c", now), name |-> out.data.name,
                      role |-> "Secondary",
                      description |-> out.data.description,
                      traits |-> <<>>, imageUrl |-> ""])
         ELSE characters
  /\ last' = [Did("sentinelCheck.settled") EXCEPT
                !.outcome = "fulfilled",
                !.response = ChatResponse(out),
                !.overtaken = inflight[i].overtaken]
  /\ UNCHANGED <<chapters, locations, lore, analysis, loading,
                 scratchpadText, focusedEntity, genId, now>>

\* sentinelCheck after its await: the i-th pending request, a chat request,
\* settles with `out`.  The catch swallows every failure.
SentinelResolve(i, out) ==
  /\ i \in 1 .. Len(inflight)
  /\ inflight[i].kind = "chat"
  /\ inflight' = RemoveAt(MarkOvertaken(inflight, i, out), i)
  /\ suggestedEntity' = SuggestionAfter(suggestedEntity, out)
  /\ last' = [Did("sentinelCheck.settled") EXCEPT
                !.outcome = "fulfilled",
                !.response = ChatResponse(out),
                !.overtaken = inflight[i].overtaken]
  /\ UNCHANGED <<chapters, characters, locations, lore, analysis, loading,
                 scratchpadText, focusedEntity, genId, now>>

\* ------------------------------------------------------------- drafts
\* An updater that looks the beat up in every chapter.
SetBeatDraftAnyChapter(prev, chapterId, beatId, newDraft) ==
  LET InBeat(bt) == IF bt.id = beatId THEN [bt EXCEPT !.draft = newDraft] ELSE bt
      InChapter(ch) ==
        [ch EXCEPT !.beats = [j \in 1 .. Len(ch.beats) |-> InBeat(ch.beats[j])]]
  IN  [i \in 1 .. Len(prev) |-> InChapter(prev[i])]

\* The updater updateBeatDraft hands to setChapters.
SetBeatDraft(prev, chapterId, beatId, newDraft) ==
  LET InBeat(bt) == IF bt.id = beatId THEN [bt EXCEPT !.draft = newDraft] ELSE bt
      InChapter(ch) ==
        IF ch.id = chapterId
          THEN [ch EXCEPT !.beats =
                            [j \in 1 .. Len(ch.beats) |-> InBeat(ch.beats[j])]]
          ELSE ch
  IN  [i \in 1 .. Len(prev) |-> InChapter(prev[i])]

updateBeatDraft(chapterId, beatId, newDraft) ==
  /\ Len(sentinelCheck(newDraft, inflight)) <= MaxInflight
  /\ chapters' = SetBeatDraft(chapters, chapterId, beatId, newDraft)
  /\ inflight' = sentinelCheck(newDraft, inflight)
  /\ last' = [Did("updateBeatDraft") EXCEPT !.chapterId = chapterId,
                                            !.beatId = beatId]
  /\ UNCHANGED <<characters, locations, lore, analysis, loading,
                 scratchpadText, suggestedEntity, focusedEntity, genId, now>>

\* The scratchpad textarea's onChange; it is rendered while there is no
\* chapter.
ScratchpadChange(text) ==
  /\ Len(chapters) = 0
  /\ Len(sentinelCheck(text, inflight)) <= MaxInflight
  /\ scratchpadText' = text
  /\ inflight' = sentinelCheck(text, inflight)
  /\ last' = [Did("ScratchpadChange") EXCEPT !.text = text]
  /\ UNCHANGED <<chapters, characters, locations, lore, analysis, loading,
                 suggestedEntity, focusedEntity, genId, now>>

\* ------------------------------------------------------------- plot edits
\* What the user types into a title or description field of the plot.
TitleTexts == {"The Crossing"}

\* chapters.map(c => c.id === ch.id ? { ...c, title } : c), on the chapters
\* of the render the input belongs to.
SetChapterTitle(prev, chapterId, title) ==
  [i \in 1 .. Len(prev) |->
     IF prev[i].id = chapterId THEN [prev[i] EXCEPT !.title = title] ELSE prev[i]]

\* chapters.map(c => c.id === ch.id ? { ...c, beats: c.beats.map(b =>
\* b.id === bt.id ? { ...b, [field]: text } : b) } : c)
SetBeatField(prev, chapterId, beatId, field, text) ==
  LET InBeat(bt) == IF bt.id = beatId THEN [bt EXCEPT ![field] = text] ELSE bt
      InChapter(ch) ==
        IF ch.id = chapterId
          THEN [ch EXCEPT !.beats =
                            [j \in 1 .. Len(ch.beats) |-> InBeat(ch.beats[j])]]
          ELSE ch
  IN  [i \in 1 .. Len(prev) |-> InChapter(prev[i])]

\* A chapter title input's onChange (write tab and plot tab); the input is
\* rendered for the chapters of the store.
EditChapterTitle(chapterId, title) ==
  /\ \E i \in 1 .. Len(chapters) : chapters[i].id = chapterId
  /\ chapters' = SetChapterTitle(chapters, chapterId, title)
  /\ last' = [Did("EditChapterTitle") EXCEPT !.chapterId = chapterId]
  /\ UNCHANGED <<characters, locations, lore, analysis, loading,
                 scratchpadText, suggestedEntity, focusedEntity, genId, now,
                 inflight>>

\* A beat's title input or description textarea onChange (plot tab).
EditBeat(chapterId, beatId, field, text) ==
  /\ field \in {"title", "description"}
  /\ \E i \in 1 .. Len(chapters) :
       /\ chapters[i].id = chapterId
       /\ \E j \in 1 .. Len(chapters[i].beats) : chapters[i].beats[j].id = beatId
  /\ chapters' = SetBeatField(chapters, chapterId, beatId, field, text)
  /\ last' = [Did("EditBeat") EXCEPT !.chapterId = chapterId, !.beatId = beatId]
  /\ UNCHANGED <<characters, locations, lore, analysis, loading,
                 scratchpadText, suggestedEntity, focusedEntity, genId, now,
                 inflight>>

\* ------------------------------------------------------------- acceptance
InscribedCharacter(s, t) ==
  [id |-> DateNowId("c", t), name |-> s.data.name, role |-> "Secondary",
   description |-> s.data.description, traits |-> <<>>, imageUrl |-> ""]

InscribedLocation(s, t) ==
  [id |-> DateNowId("l", t), name |-> s.data.name,
   atmosphere |-> "Atmospheric", description |-> s.data.description,
   imageUrl |-> ""]

\* Inscribe onClick; the button is rendered while a suggestion is held.
Inscribe ==
  /\ suggestedEntity # NoSuggestion
  /\ IF suggestedEntity.type = "character"
       THEN /\ Len(characters) < MaxEntities
            /\ characters' = Append(characters,
                                    InscribedCharacter(suggestedEntity, now))
            /\ UNCHANGED locations
       ELSE /\ Len(locations) < MaxEntities
            /\ locations' = Append(locations,
                                   InscribedLocation(suggestedEntity, now))
            /\ UNCHANGED characters
  /\ suggestedEntity' = NoSuggestion
  /\ last' = [Did("Inscribe") EXCEPT !.type = suggestedEntity.type]
  /\ UNCHANGED <<chapters, lore, analysis, loading, scratchpadText,
                 focusedEntity, genId, now, inflight>>

\* ------------------------------------------------------------- import
\* The contents of the chosen file: empty or not.
FileTexts == {0, 100}

\* handleFileUpload: with no file chosen (NoText) it returns; otherwise the
\* FileReader starts reading.
handleFileUpload(file) ==
  /\ file \in FileTexts \cup {NoText}
  /\ IF file = NoText
       THEN UNCHANGED inflight
       ELSE /\ Len(inflight) < MaxInflight
            /\ inflight' = Append(inflight, [Request("read") EXCEPT !.text = file])
  /\ last' = [Did("handleFileUpload") EXCEPT !.text = file]
  /\ UNCHANGED <<chapters, characters, locations, lore, analysis, loading,
                 scratchpadText, suggestedEntity, focusedEntity, genId, now>>

\* reader.onload up to its await: an empty text ends it, any other text sets
\* the loading flag and calls extractFromText.
ReaderOnload(i) ==
  /\ i \in 1 .. Len(inflight)
  /\ inflight[i].kind = "read"
  /\ IF inflight[i].text = 0
       THEN /\ inflight' = RemoveAt(inflight, i)
            /\ UNCHANGED loading
       ELSE /\ inflight' = [inflight EXCEPT ![i] = Request("extract")]
            /\ loading' = TRUE
  /\ last' = [Did("reader.onload") EXCEPT !.text = inflight[i].text]
  /\ UNCHANGED <<chapters, characters, locations, lore, analysis,
                 scratchpadText, suggestedEntity, focusedEntity, genId, now>>

\* The ids an extracted object can carry: none, or one the store can hold.
AiIds(p) == {NoId, DateNowId(p, 1)}

\* What extractFromText can return, once parsed: each of chapters, characters
\* and locations is absent or an array; a chapter may lack its beats.
ExtractedChapters(aid) ==
  {<<>>,
   <<[id |-> aid, title |-> "Extracted Chapter", hasBeats |-> FALSE,
      beats |-> <<>>]>>,
   <<[id |-> aid, title |-> "Extracted Chapter", hasBeats |-> TRUE,
      beats |-> <<[id |-> aid, title |-> "Extracted Beat",
                   description |-> "Extracted", draft |-> NoText]>>]>>}

ExtractedCharacters(aid) ==
  {<<[id |-> aid, name |-> "Extracted Persona", role |-> "Extracted",
      description |-> "Extracted"]>>}

ExtractedLocations(aid) ==
  {<<[id |-> aid, name |-> "Extracted Region", atmosphere |-> "Extracted",
      description |-> "Extracted"]>>}

Extractions ==
  {[hasChapters |-> chs[1], chapters |-> chs[2], hasCharacters |-> cs[1],
    characters |-> cs[2], hasLocations |-> ls[1], locations |-> ls[2]] :
      chs \in {<<FALSE, <<>>>>}
                \cup ({TRUE} \X UNION {ExtractedChapters(a) : a \in AiIds("ch")}),
      cs \in {<<FALSE, <<>>>>}
               \cup ({TRUE} \X UNION {ExtractedCharacters(a) : a \in AiIds("c")}),
      ls \in {<<FALSE, <<>>>>}
               \cup ({TRUE} \X UNION {ExtractedLocations(a) : a \in AiIds("l")})}

\* The id the import gives an extracted object that carries id `given`.
ImportedId(given, p, r) == MathRandomId(p, r)

\* { ...ch, id: 'ch-' + Math.random(), beats: ch.beats.map(b => ({ ...b, id:
\* 'b-' + Math.random() })) }
ImportedChapter(ch, r, rb) ==
  [id |-> ImportedId(ch.id, "ch", r), title |-> ch.title,
   beats |-> [j \in 1 .. Len(ch.beats) |->
                [ch.beats[j] EXCEPT !.id = ImportedId(ch.beats[j].id, "b", rb)]]]

\* { ...c, id: 'c-' + Math.random(), traits: [] }
ImportedCharacter(c, r) ==
  [id |-> ImportedId(c.id, "c", r), name |-> c.name, role |-> c.role,
   description |-> c.description, traits |-> <<>>, imageUrl |-> ""]

\* { ...l, id: 'l-' + Math.random() }
ImportedLocation(l, r) ==
  [id |-> ImportedId(l.id, "l", r), name |-> l.name,
   atmosphere |-> l.atmosphere, description |-> l.description,
   imageUrl |-> ""]

\* ch.beats.map throws on a chapter without beats.
MapThrows(ex) ==
  ex.hasChapters /\ \E k \in 1 .. Len(ex.chapters) : ~ex.chapters[k].hasBeats

\* The chapters after the import: the extracted ones.
ChaptersAfterImport(prev, ex, r, rb) ==
  IF ex.hasChapters
    THEN [k \in 1 .. Len(ex.chapters) |-> ImportedChapter(ex.chapters[k], r, rb)]
    ELSE prev

CharactersAfterImport(prev, ex, r) ==
  IF ex.hasCharacters
    THEN prev \o [k \in 1 .. Len(ex.characters) |->
                    ImportedCharacter(ex.characters[k], r)]
    ELSE prev

LocationsAfterImport(prev, ex, r) ==
  IF ex.hasLocations
    THEN prev \o [k \in 1 .. Len(ex.locations) |->
                    ImportedLocation(ex.locations[k], r)]
    ELSE prev

\* The Math.random() values an import of `ex` draws for part `used`.
Draws(used) == IF used THEN RandVals ELSE {0}

\* An import without the finally: a failure leaves the loading flag set.
ExtractFailStuck(i) ==
  /\ i \in 1 .. Len(inflight)
  /\ inflight[i].kind = "extract"
  /\ inflight' = RemoveAt(inflight, i)
  /\ last' = [Did("import.settled") EXCEPT !.outcome = "rejected",
                                           !.response = "reject"]
  /\ UNCHANGED <<chapters, characters, locations, lore, analysis, loading,
                 scratchpadText, suggestedEntity, focusedEntity, genId, now>>

\* reader.onload after its await, the request failing or its text not being
\* JSON: finally clears the loading flag and the error leaves the handler.
ExtractFail(i) ==
  /\ i \in 1 .. Len(inflight)
  /\ inflight[i].kind = "extract"
  /\ inflight' = RemoveAt(inflight, i)
  /\ loading' = FALSE
  /\ last' = [Did("import.settled") EXCEPT !.outcome = "rejected",
                                           !.response = "reject"]
  /\ UNCHANGED <<chapters, characters, locations, lore, analysis,
                 scratchpadText, suggestedEntity, focusedEntity, genId, now>>

\* reader.onload after its await, with the extraction `ex`.
ExtractResolve(i, ex) ==
  /\ i \in 1 .. Len(inflight)
  /\ inflight[i].kind = "extract"
  /\ inflight' = RemoveAt(inflight, i)
  /\ loading' = FALSE
  /\ IF MapThrows(ex)
       THEN /\ UNCHANGED <<chapters, characters, locations>>
            /\ last' = [Did("import.settled") EXCEPT !.outcome = "rejected"]
       ELSE /\ Len(CharactersAfterImport(characters, ex, 0)) <= MaxEntities
            /\ Len(LocationsAfterImport(locations, ex, 0)) <= MaxEntities
            /\ \E r \in Draws(ex.hasChapters /\ ex.chapters # <<>>),
                  rb \in Draws(ex.hasChapters /\ ex.chapters # <<>>) :
                 chapters' = ChaptersAfterImport(chapters, ex, r, rb)
            /\ \E r \in Draws(ex.hasCharacters) :
                 characters' = CharactersAfterImport(characters, ex, r)
            /\ \E r \in Draws(ex.hasLocations) :
                 locations' = LocationsAfterImport(locations, ex, r)
            /\ last' = [Did("import.settled") EXCEPT
                          !.outcome = "fulfilled",
                          !.type = IF ex.hasChapters THEN "chapters" ELSE "none"]
  /\ UNCHANGED <<lore, analysis, scratchpadText, suggestedEntity,
                 focusedEntity, genId, now>>

\* ------------------------------------------------------------- analysis
\* runAnalysis up to its await.
runAnalysis ==
  /\ Len(inflight) < MaxInflight
  /\ loading' = TRUE
  /\ inflight' = Append(inflight, Request("analysis"))
  /\ last' = Did("runAnalysis")
  /\ UNCHANGED <<chapters, characters, locations, lore, analysis,
                 scratchpadText, suggestedEntity, focusedEntity, genId, now>>

\* How analyzePlot settles: the request fails, its text is not JSON, or it
\* parses to a result ("{}" for an empty text).
AnalysisOutcomes ==
  {[kind |-> k, result |-> "null"] : k \in {"reject", "malformed"}}
    \cup {[kind |-> "json", result |-> r] :
             r \in {"{}", "analysis A", "analysis B"}}

\* A runAnalysis that clears the stored analysis when analyzePlot fails.
AnalysisAfterCleared(prev, out) ==
  IF out.kind = "json" THEN out.result ELSE "null"

\* The stored analysis after analyzePlot settles: setAnalysis(result) is
\* reached only when the await returns.
AnalysisAfter(prev, out) ==
  IF out.kind = "json" THEN out.result ELSE prev

\* runAnalysis after its await: try { ... } finally { setLoading(false) },
\* with no catch, so a failure of analyzePlot rejects runAnalysis's promise.
AnalysisSettle(i, out) ==
  /\ i \in 1 .. Len(inflight)
  /\ inflight[i].kind = "analysis"
  /\ inflight' = RemoveAt(inflight, i)
  /\ analysis' = AnalysisAfter(analysis, out)
  /\ loading' = FALSE
  /\ last' = [Did("runAnalysis.settled") EXCEPT
                !.outcome = IF out.kind = "json" THEN "fulfilled" ELSE "rejected",
                !.response = out.kind]
  /\ UNCHANGED <<chapters, characters, locations, lore, scratchpadText,
                 suggestedEntity, focusedEntity, genId, now>>

\* ------------------------------------------------------------- entity modal
\* characters.find(c => c.id === id) finds an entity.
Found(coll, id) == \E k \in 1 .. Len(coll) : coll[k].id = id

\* The entity find returns: the first with the id.
Find(coll, id) ==
  coll[CHOOSE k \in 1 .. Len(coll) :
         coll[k].id = id /\ \A m \in 1 .. (k - 1) : coll[m].id # id]

Collection(type) == IF type = "character" THEN characters ELSE locations

\* The modal is rendered: focusedEntity && currentFocused.
ModalOpen ==
  /\ focusedEntity # NoFocus
  /\ Found(Collection(focusedEntity.type), focusedEntity.id)

\* A card's onClick.
Focus(type, k) ==
  /\ k \in 1 .. Len(Collection(type))
  /\ focusedEntity' = [type |-> type, id |-> Collection(type)[k].id]
  /\ last' = [Did("Focus") EXCEPT !.type = type, !.id = Collection(type)[k].id]
  /\ UNCHANGED <<chapters, characters, locations, lore, analysis, loading,
                 scratchpadText, suggestedEntity, genId, now, inflight>>

\* The modal backdrop's onClick.
Unfocus ==
  /\ ModalOpen
  /\ focusedEntity' = NoFocus
  /\ last' = Did("Unfocus")
  /\ UNCHANGED <<chapters, characters, locations, lore, analysis, loading,
                 scratchpadText, suggestedEntity, genId, now, inflight>>

\* A filter that stops at the first entity with the id.
WithoutFrom(coll, id) ==
  SubSeq(coll, 1, Cardinality({k \in 1 .. Len(coll) :
                                 \A m \in 1 .. k : coll[m].id # id}))

\* characters.filter(c => c.id !== id)
Without(coll, id) == SelectSeq(coll, LAMBDA e : e.id # id)

\* History: the pending image requests for the banished entity are marked.
MarkBanished(pending, type, id) ==
  [k \in 1 .. Len(pending) |->
     IF pending[k].kind = "visual" /\ pending[k].type = type /\ pending[k].id = id
       THEN [pending[k] EXCEPT !.banished = TRUE]
       ELSE pending[k]]

\* Banish Entry onClick.
BanishEntry ==
  /\ ModalOpen
  /\ IF focusedEntity.type = "character"
       THEN /\ characters' = Without(characters, focusedEntity.id)
            /\ UNCHANGED locations
       ELSE /\ locations' = Without(locations, focusedEntity.id)
            /\ UNCHANGED characters
  /\ focusedEntity' = NoFocus
  /\ inflight' = MarkBanished(inflight, focusedEntity.type, focusedEntity.id)
  /\ last' = [Did("BanishEntry") EXCEPT !.type = focusedEntity.type,
                                        !.id = focusedEntity.id]
  /\ UNCHANGED <<chapters, lore, analysis, loading, scratchpadText,
                 suggestedEntity, genId, now>>

\* What the user types into the modal's name and description fields.
EntityTexts == {"Mira"}

\* prev.map(c => c.id === focusedEntity.id ? { ...c, [field]: text } : c)
SetEntityField(prev, id, field, text) ==
  [k \in 1 .. Len(prev) |->
     IF prev[k].id = id THEN [prev[k] EXCEPT ![field] = text] ELSE prev[k]]

\* History: the pending image requests for the edited entity are marked.
MarkEdited(pending, type, id) ==
  [k \in 1 .. Len(pending) |->
     IF pending[k].kind = "visual" /\ pending[k].type = type /\ pending[k].id = id
       THEN [pending[k] EXCEPT !.edited = TRUE]
       ELSE pending[k]]

\* The modal's name input or description textarea onChange.
EditEntity(field, text) ==
  /\ field \in {"name", "description"}
  /\ ModalOpen
  /\ IF focusedEntity.type = "character"
       THEN /\ characters' = SetEntityField(characters, focusedEntity.id, field, text)
            /\ UNCHANGED locations
       ELSE /\ locations' = SetEntityField(locations, focusedEntity.id, field, text)
            /\ UNCHANGED characters
  /\ inflight' = MarkEdited(inflight, focusedEntity.type, focusedEntity.id)
  /\ last' = [Did("EditEntity") EXCEPT !.type = focusedEntity.type,
                                       !.id = focusedEntity.id]
  /\ UNCHANGED <<chapters, lore, analysis, loading, scratchpadText,
                 suggestedEntity, focusedEntity, genId, now>>

\* triggerVisual up to its await, called by the Visualize Entry button, which
\* is rendered in the modal while genId is not the entity's id and the entity
\* has no image.
triggerVisual(type, id) ==
  /\ ModalOpen
  /\ type = focusedEntity.type
  /\ id = focusedEntity.id
  /\ genId # id
  /\ Found(Collection(type), id)
  /\ Find(Collection(type), id).imageUrl = ""
  /\ Len(inflight) < MaxInflight
  /\ genId' = id
  /\ inflight' = Append(inflight,
                        [Request("visual") EXCEPT !.type = type, !.id = id])
  /\ last' = [Did("triggerVisual") EXCEPT !.type = type, !.id = id]
  /\ UNCHANGED <<chapters, characters, locations, lore, analysis, loading,
                 scratchpadText, suggestedEntity, focusedEntity, now>>

\* How visualizeAsset settles: the request fails, the response holds no
\* image (null), or it holds one.
VisualOutcomes ==
  {[kind |-> "reject", url |-> ""], [kind |-> "null", url |-> ""],
   [kind |-> "url", url |-> "data:image/png;base64,A"]}

\* A write-back that builds the entity anew instead of spreading it.
WithImageOnly(prev, id, url) ==
  [k \in 1 .. Len(prev) |->
     IF prev[k].id = id
       THEN [prev[k] EXCEPT !.imageUrl = url, !.name = "", !.description = ""]
       ELSE prev[k]]

\* prev.map(c => c.id === id ? { ...c, imageUrl: url } : c)
WithImage(prev, id, url) ==
  [k \in 1 .. Len(prev) |->
     IF prev[k].id = id THEN [prev[k] EXCEPT !.imageUrl = url] ELSE prev[k]]

\* triggerVisual after its await; finally clears genId, and with no catch a
\* failure of visualizeAsset rejects triggerVisual's promise.
VisualSettle(i, out) ==
  /\ i \in 1 .. Len(inflight)
  /\ inflight[i].kind = "visual"
  /\ inflight' = RemoveAt(inflight, i)
  /\ IF out.kind = "url"
       THEN IF inflight[i].type = "character"
              THEN /\ characters' = WithImage(characters, inflight[i].id, out.url)
                   /\ UNCHANGED locations
              ELSE /\ locations' = WithImage(locations, inflight[i].id, out.url)
                   /\ UNCHANGED characters
       ELSE UNCHANGED <<characters, locations>>
  /\ genId' = NoId
  /\ last' = [Did("triggerVisual.settled") EXCEPT
                !.type = inflight[i].type, !.id = inflight[i].id,
                !.banished = inflight[i].banished,
                !.edited = inflight[i].edited,
                !.response = out.kind,
                !.outcome = IF out.kind = "reject" THEN "rejected" ELSE "fulfilled"]
  /\ UNCHANGED <<chapters, lore, analysis, loading, scratchpadText,
                 suggestedEntity, focusedEntity, now>>

\* ------------------------------------------------------------- specifications
\* The ids updateBeatDraft can be called with: those of the chapters and beats
\* the store can hold, which are unknown to it in most states.
ChapterIds == {DateNowId("ch", t) : t \in 1 .. MaxClock}
BeatIds == {DateNowId("b", t) : t \in 1 .. MaxClock}

\* Drafting: chapters created at different times and their drafts.
NextDraft ==
  \/ Tick
  \/ AddChapter
  \/ \E c \in ChapterIds, b \in BeatIds, t \in TextLens : updateBeatDraft(c, b, t)
  \/ \E i \in 1 .. MaxInflight, out \in ChatOutcomes : SentinelResolve(i, out)

SpecDraft == Init /\ [][NextDraft]_vars

\* The detector: every text change, on the scratchpad and on a draft.
NextSentinel ==
  \/ AddChapter
  \/ \E t \in BoundaryLens : ScratchpadChange(t)
  \/ \E c \in ChapterIds, b \in BeatIds, t \in TextLens : updateBeatDraft(c, b, t)
  \/ \E i \in 1 .. MaxInflight, out \in ChatOutcomes : SentinelResolve(i, out)

SpecSentinel == Init /\ [][NextSentinel]_vars

\* Creation: the three Add buttons pressed at any clock readings.
NextIds ==
  \/ Tick
  \/ AddChapter
  \/ AddCharacter
  \/ AddLocation

SpecIds == Init /\ [][NextIds]_vars

\* Import: files imported into a store that holds chapters and characters.
NextImport ==
  \/ AddChapter
  \/ AddCharacter
  \/ \E f \in FileTexts \cup {NoText} : handleFileUpload(f)
  \/ \E i \in 1 .. MaxInflight : ReaderOnload(i)
  \/ \E i \in 1 .. MaxInflight : ExtractFail(i)
  \/ \E i \in 1 .. MaxInflight, ex \in Extractions : ExtractResolve(i, ex)

SpecImport == Init /\ [][NextImport]_vars

\* Analysis: scans started and settled while the store is being filled.
NextAnalysis ==
  \/ Tick
  \/ AddChapter
  \/ AddCharacter
  \/ runAnalysis
  \/ \E i \in 1 .. MaxInflight, out \in AnalysisOutcomes : AnalysisSettle(i, out)

SpecAnalysis == Init /\ [][NextAnalysis]_vars

\* The entity modal: entities created, opened, visualized and banished.
NextVisual ==
  \/ Tick
  \/ AddCharacter
  \/ AddLocation
  \/ \E ty \in {"character", "location"}, k \in 1 .. MaxEntities : Focus(ty, k)
  \/ Unfocus
  \/ BanishEntry
  \/ triggerVisual(focusedEntity.type, focusedEntity.id)
  \/ \E i \in 1 .. MaxInflight, out \in VisualOutcomes : VisualSettle(i, out)

SpecVisual == Init /\ [][NextVisual]_vars

\* The loading flag: imports and scans started while others are pending,
\* settling in any order, on a store that holds a chapter or a character.
NextLoading ==
  \/ AddChapter
  \/ AddCharacter
  \/ handleFileUpload(100)
  \/ \E i \in 1 .. MaxInflight : ReaderOnload(i)
  \/ \E i \in 1 .. MaxInflight : ExtractFail(i)
  \/ \E i \in 1 .. MaxInflight,
        ex \in {e \in Extractions :
                  /\ ~e.hasLocations
                  /\ ~e.hasCharacters
                  /\ \A k \in 1 .. Len(e.chapters) : e.chapters[k].id = NoId} :
       ExtractResolve(i, ex)
  \/ runAnalysis
  \/ \E i \in 1 .. MaxInflight,
        out \in {o \in AnalysisOutcomes : o.result \in {"null", "analysis A"}} :
       AnalysisSettle(i, out)

SpecLoading == Init /\ [][NextLoading]_vars

\* Editing under image generation: characters created at any clock readings,
\* opened, renamed and described while an image request is pending.
NextEdit ==
  \/ Tick
  \/ AddCharacter
  \/ \E k \in 1 .. MaxEntities : Focus("character", k)
  \/ \E f \in {"name", "description"}, t \in EntityTexts : EditEntity(f, t)
  \/ inflight = <<>> /\ triggerVisual(focusedEntity.type, focusedEntity.id)
  \/ \E i \in 1 .. MaxInflight, out \in {o \in VisualOutcomes : o.kind # "null"} :
       VisualSettle(i, out)

SpecEdit == Init /\ [][NextEdit]_vars

\* The plot: chapters created at any clock readings, their titles, their
\* beats' titles and descriptions edited and their drafts typed, with texts
\* on which the detector stays silent.
NextPlot ==
  \/ Tick
  \/ AddChapter
  \/ \E c \in ChapterIds, t \in TitleTexts : EditChapterTitle(c, t)
  \/ \E c \in ChapterIds, b \in BeatIds, f \in {"title", "description"},
        t \in TitleTexts : EditBeat(c, b, f, t)
  \/ \E c \in ChapterIds, b \in BeatIds,
        t \in {n \in TextLens : ~SentinelFires(n)} : updateBeatDraft(c, b, t)

SpecPlot == Init /\ [][NextPlot]_vars

\* Banishment: entities created at any clock readings, opened, renamed and
\* banished.
NextBanish ==
  \/ Tick
  \/ AddCharacter
  \/ AddLocation
  \/ \E ty \in {"character", "location"}, k \in 1 .. MaxEntities : Focus(ty, k)
  \/ Unfocus
  \/ \E t \in EntityTexts : EditEntity("name", t)
  \/ BanishEntry

SpecBanish == Init /\ [][NextBanish]_vars

\* Acceptance: suggestions raised from the scratchpad and inscribed into a
\* store that also gets entities from the Add buttons.
NextInscribe ==
  \/ Tick
  \/ AddCharacter
  \/ AddLocation
  \/ \E t \in TextLens : ScratchpadChange(t)
  \/ \E i \in 1 .. MaxInflight, out \in ChatOutcomes : SentinelResolve(i, out)
  \/ Inscribe

SpecInscribe == Init /\ [][NextInscribe]_vars

\* The extractions without locations that the import applies and whose
\* objects carry no id.
CanonExtractions ==
  {ex \in Extractions :
     /\ ~ex.hasLocations
     /\ ~MapThrows(ex)
     /\ \A k \in 1 .. Len(ex.chapters) : ex.chapters[k].id = NoId
     /\ \A k \in 1 .. Len(ex.characters) : ex.characters[k].id = NoId}

\* Provenance: the gateway calls whose answers hold entity data (detector,
\* import, image), made one at a time.
NextCanon ==
  \/ inflight = <<>> /\ ScratchpadChange(369)
  \/ \E i \in 1 .. MaxInflight,
        out \in {o \in ChatOutcomes :
                   o.kind = "reject" \/ (o.data.found /\ o.data.type = "character")} :
       SentinelResolve(i, out)
  \/ Inscribe
  \/ inflight = <<>> /\ handleFileUpload(100)
  \/ \E i \in 1 .. MaxInflight : ReaderOnload(i)
  \/ \E i \in 1 .. MaxInflight, ex \in CanonExtractions : ExtractResolve(i, ex)
  \/ \E k \in 1 .. MaxEntities : Focus("character", k)
  \/ inflight = <<>> /\ triggerVisual(focusedEntity.type, focusedEntity.id)
  \/ \E i \in 1 .. MaxInflight, out \in VisualOutcomes : VisualSettle(i, out)

SpecCanon == Init /\ [][NextCanon]_vars

\* The whole program: every handler and every continuation.  Each
\* specification above takes from it the handlers its claims are about.
Next ==
  \/ NextIds
  \/ NextDraft
  \/ NextSentinel
  \/ NextImport
  \/ NextAnalysis
  \/ NextVisual
  \/ NextInscribe
  \/ NextCanon
  \/ NextBanish
  \/ NextPlot
  \/ NextLoading
  \/ NextEdit

Spec == Init /\ [][Next]_vars

\* ------------------------------------------------------------- claims
\* The Document Store of the claims.
DocumentStore == <<chapters, characters, locations, lore, scratchpadText>>

HasChapter(chs, c) == \E i \in 1 .. Len(chs) : chs[i].id = c

HasBeat(chs, c, b) ==
  \E i \in 1 .. Len(chs) :
    /\ chs[i].id = c
    /\ \E j \in 1 .. Len(chs[i].beats) : chs[i].beats[j].id = b

ChatRequests(pending) ==
  Cardinality({i \in 1 .. Len(pending) : pending[i].kind = "chat"})

\* C4: updateBeatDraft(chapterId, beatId, text) leaves the Document Store
\* (chapters with their beats, characters, locations, lore, scratchpad) as
\* it was when chapterId matches no chapter or beatId matches no beat of the
\* matched chapter.
C4_UnknownIdsLeaveStore ==
  [][(/\ last'.op = "updateBeatDraft"
      /\ ~HasBeat(chapters, last'.chapterId, last'.beatId))
       => DocumentStore' = DocumentStore]_vars

\* updateBeatDraft has run with the id of a chapter of the store and an id
\* that none of its beats has.
C4_Witness ==
  /\ last.op = "updateBeatDraft"
  /\ HasChapter(chapters, last.chapterId)
  /\ ~HasBeat(chapters, last.chapterId, last.beatId)

\* The requests the claim has the detector issue for a text of length n.
IssuedFor(n) == IF n > 50 /\ n % 350 < 20 THEN 1 ELSE 0

\* C5: on a draft or scratchpad change to a text of length n, the detector
\* issues a gateway request if and only if n > 50 and n mod 350 < 20: none
\* for n <= 50, one at 369, none at 370.
C5_DetectorFiresInWindow ==
  [][/\ last'.op = "ScratchpadChange"
          => ChatRequests(inflight')
               = ChatRequests(inflight) + IssuedFor(scratchpadText')
     /\ last'.op = "updateBeatDraft"
          => \A t \in TextLens :
               updateBeatDraft(last'.chapterId, last'.beatId, t)
                 => ChatRequests(inflight')
                      = ChatRequests(inflight) + IssuedFor(t)]_vars

\* A scratchpad text of length 369 has been typed and its request is pending.
C5_Witness ==
  /\ last.op = "ScratchpadChange"
  /\ last.text = 369
  /\ ChatRequests(inflight) > 0

UniqueIds(s) == \A i, j \in 1 .. Len(s) : i # j => s[i].id # s[j].id

\* C1: after every sequence of Add Chapter, Add Character and Add Location,
\* pressed at any clock readings, no two chapters share an id, no two
\* characters do and no two locations do.
C1_IdsUniqueInCollection ==
  /\ UniqueIds(chapters)
  /\ UniqueIds(characters)
  /\ UniqueIds(locations)

\* Every id the store holds: of its chapters, beats, characters, locations.
StoreIds ==
  {chapters[i].id : i \in 1 .. Len(chapters)}
    \cup UNION {{chapters[i].beats[j].id : j \in 1 .. Len(chapters[i].beats)} :
                  i \in 1 .. Len(chapters)}
    \cup {characters[i].id : i \in 1 .. Len(characters)}
    \cup {locations[i].id : i \in 1 .. Len(locations)}

ImportApplied == last'.op = "import.settled" /\ last'.outcome = "fulfilled"

\* C2: every chapter, beat, character and location an import produces has an
\* id that no chapter, beat, character or location had before the import.
C2_ImportIdsFresh ==
  [][ImportApplied =>
       /\ last'.type = "chapters" =>
            \A i \in 1 .. Len(chapters') :
              /\ chapters'[i].id \notin StoreIds
              /\ \A j \in 1 .. Len(chapters'[i].beats) :
                   chapters'[i].beats[j].id \notin StoreIds
       /\ \A i \in (Len(characters) + 1) .. Len(characters') :
            characters'[i].id \notin StoreIds
       /\ \A i \in (Len(locations) + 1) .. Len(locations') :
            locations'[i].id \notin StoreIds]_vars

\* C3: every chapter, character and location that is in the store when an
\* import is applied is in the store after it.
C3_ImportMerges ==
  [][ImportApplied =>
       /\ \A i \in 1 .. Len(chapters) : chapters[i] \in Range(chapters')
       /\ \A i \in 1 .. Len(characters) : characters[i] \in Range(characters')
       /\ \A i \in 1 .. Len(locations) : locations[i] \in Range(locations')]_vars

\* C7: when the analyzePlot call of runAnalysis fails, the stored analysis is
\* what it was before: null stays null and a prior result stays in place.
C7_FailedAnalysisKeepsResult ==
  [][(last'.op = "runAnalysis.settled" /\ last'.outcome = "rejected")
       => analysis' = analysis]_vars

\* An analyzePlot call has failed while a prior result was stored.
C7_Witness ==
  /\ last.op = "runAnalysis.settled"
  /\ last.outcome = "rejected"
  /\ analysis # "null"

\* C8: runAnalysis completes normally whatever analyzePlot does: no error
\* reaches its caller.
C8_AnalysisFailureContained ==
  last.op = "runAnalysis.settled" => last.outcome = "fulfilled"

\* C6: accepting a held suggestion of type character appends exactly one
\* Character: its id is new to the collection and is not the id the gateway
\* supplied, its name and description are the suggestion's, its role is
\* "Secondary" and it has no traits; nothing else in the store changes and no
\* suggestion is held afterwards.
C6_InscribeAppendsFreshCharacter ==
  [][(last'.op = "Inscribe" /\ suggestedEntity.type = "character") =>
       /\ Len(characters') = Len(characters) + 1
       /\ SubSeq(characters', 1, Len(characters)) = characters
       /\ \A k \in 1 .. Len(characters) :
            characters[k].id # characters'[Len(characters')].id
       /\ characters'[Len(characters')].id # suggestedEntity.data.id
       /\ characters'[Len(characters')].name = suggestedEntity.data.name
       /\ characters'[Len(characters')].description
            = suggestedEntity.data.description
       /\ characters'[Len(characters')].role = "Secondary"
       /\ characters'[Len(characters')].traits = <<>>
       /\ UNCHANGED <<chapters, locations, lore, scratchpadText>>
       /\ suggestedEntity' = NoSuggestion]_vars

\* C9: when an image request settles whose character or location was
\* banished while the request was pending, no character and no location
\* changes.
C9_StaleImageIgnored ==
  [][(last'.op = "triggerVisual.settled" /\ last'.banished)
       => (characters' = characters /\ locations' = locations)]_vars

\* The entities of `old` that differ in `new`, by position.
Changed(old, new) ==
  {k \in 1 .. Len(old) : k > Len(new) \/ new[k] # old[k]}

\* C10: a settling image request changes at most one entity: one of the
\* requested type with the requested id, and only its imageUrl; every other
\* character and location stays as it is.
C10_ImageWrittenToItsEntity ==
  [][last'.op = "triggerVisual.settled" =>
       /\ Len(characters') = Len(characters)
       /\ Len(locations') = Len(locations)
       /\ Cardinality(Changed(characters, characters'))
            + Cardinality(Changed(locations, locations')) <= 1
       /\ \A k \in Changed(characters, characters') :
            /\ last'.type = "character"
            /\ characters[k].id = last'.id
            /\ [characters'[k] EXCEPT !.imageUrl = ""]
                 = [characters[k] EXCEPT !.imageUrl = ""]
       /\ \A k \in Changed(locations, locations') :
            /\ last'.type = "location"
            /\ locations[k].id = last'.id
            /\ [locations'[k] EXCEPT !.imageUrl = ""]
                 = [locations[k] EXCEPT !.imageUrl = ""]]_vars

\* C11: one suggestion is held, and of two detector firings that both find
\* an entity the later firing's suggestion is the one held once both answers
\* are in, in whichever order they arrive: an answer to a firing that a later
\* firing's found answer has overtaken leaves the held suggestion as it is.
C11_LaterFiringWins ==
  [][(last'.op = "sentinelCheck.settled" /\ last'.overtaken)
       => suggestedEntity' = suggestedEntity]_vars

\* The strings each gateway call returns.
ChatStrings ==
  UNION {{d.name, d.description} : d \in {c \in ChatData : c.found}}

ExtractedStrings ==
  {"Extracted Chapter", "Extracted Beat", "Extracted", "Extracted Persona",
   "Extracted Region"}

ImageStrings == {out.url : out \in {o \in VisualOutcomes : o.kind = "url"}}

\* The fields of the canonical collections, as <<collection, field, value>>.
StoreFields ==
  {<<"chapter", "title", chapters[i].title>> : i \in 1 .. Len(chapters)}
    \cup UNION {{<<"beat", "title", chapters[i].beats[j].title>> :
                    j \in 1 .. Len(chapters[i].beats)} : i \in 1 .. Len(chapters)}
    \cup UNION {{<<"beat", "description", chapters[i].beats[j].description>> :
                    j \in 1 .. Len(chapters[i].beats)} : i \in 1 .. Len(chapters)}
    \cup UNION {{<<"character", "name", characters[i].name>>,
                  <<"character", "role", characters[i].role>>,
                  <<"character", "description", characters[i].description>>,
                  <<"character", "imageUrl", characters[i].imageUrl>>} :
                    i \in 1 .. Len(characters)}
    \cup UNION {{<<"location", "name", locations[i].name>>,
                  <<"location", "atmosphere", locations[i].atmosphere>>,
                  <<"location", "description", locations[i].description>>,
                  <<"location", "imageUrl", locations[i].imageUrl>>} :
                    i \in 1 .. Len(locations)}

\* The fields that hold a string of the given gateway strings.
Held(strings) == {f \in StoreFields : f[3] \in strings}

\* A step admits no string of `strings` into the collections: every field
\* that holds one after the step held it before.
AdmitsNone(strings) ==
  \/ UNCHANGED <<chapters, characters, locations>>
  \/ Held(strings)' \subseteq Held(strings)

\* C12 as claimed: in every step that puts data returned by the gateway
\* into a field of a chapter, beat, character or location, the step is an
\* Inscribe.
C12_OnlyInscribeAdmitsAiData ==
  [][\/ last'.op = "Inscribe"
     \/ AdmitsNone(ChatStrings \cup ExtractedStrings \cup ImageStrings)]_vars

\* C12 as amended: data returned by the gateway enters the collections by
\* three paths only.  What the detector returned enters by an Inscribe; what
\* an extraction returned enters when the import is applied; an image enters
\* the imageUrl of a character or location when its request settles.
C12_AiDataPaths ==
  [][/\ last'.op = "Inscribe" \/ AdmitsNone(ChatStrings)
     /\ (last'.op = "import.settled" /\ last'.outcome = "fulfilled")
          \/ AdmitsNone(ExtractedStrings)
     /\ \/ AdmitsNone(ImageStrings)
        \/ /\ last'.op = "triggerVisual.settled"
           /\ \A f \in Held(ImageStrings)' \ Held(ImageStrings) :
                f[1] = last'.type /\ f[2] = "imageUrl"]_vars

\* The store holds what the detector found, what an import extracted and an
\* image at once, each through its own path.
C12_Witness ==
  /\ Held(ChatStrings) # {}
  /\ Held(ExtractedStrings) # {}
  /\ Held(ImageStrings) # {}

\* C13: when the detector's request fails, or its answer is not JSON, or the
\* answer has no truthy found field, sentinelCheck completes normally and the
\* held suggestion, chapters, characters, locations and lore are what they
\* were before the answer.
C13_DetectorFailsSilently ==
  [][(last'.op = "sentinelCheck.settled" /\ last'.response # "found") =>
       /\ last'.outcome = "fulfilled"
       /\ suggestedEntity' = suggestedEntity
       /\ UNCHANGED <<chapters, characters, locations, lore>>]_vars

\* A detector answer that is not JSON has arrived while a suggestion was held
\* and the store held a chapter.
C13_Witness ==
  /\ last.op = "sentinelCheck.settled"
  /\ last.response = "malformed"
  /\ suggestedEntity # NoSuggestion
  /\ chapters # <<>>

\* The entities of `coll` before position k that have the id.
Matches(coll, id, k) ==
  Cardinality({m \in 1 .. (k - 1) : coll[m].id = id})

\* `new` is `old` with exactly the entities of the id gone: every other
\* entity is in `new`, unchanged, moved up by the number of removed entities
\* before it, and `new` holds nothing else.
RemovedExactly(old, new, id) ==
  /\ Len(new) = Len(old) - Matches(old, id, Len(old) + 1)
  /\ \A k \in 1 .. Len(old) :
       old[k].id # id => new[k - Matches(old, id, k)] = old[k]

\* C14: banishing the entity of a type and id removes exactly the entities
\* of that id from that type's collection (none if none has it) and keeps
\* the remaining ones in their order; the other collection, chapters with
\* their beats and lore are unchanged.
C14_BanishRemovesOnlyItsEntity ==
  [][last'.op = "BanishEntry" =>
       /\ UNCHANGED <<chapters, lore>>
       /\ IF last'.type = "character"
            THEN /\ RemovedExactly(characters, characters', last'.id)
                 /\ UNCHANGED locations
            ELSE /\ RemovedExactly(locations, locations', last'.id)
                 /\ UNCHANGED characters]_vars

\* A character has been banished from a store that keeps another character
\* and a location.
C14_Witness ==
  /\ last.op = "BanishEntry"
  /\ last.type = "character"
  /\ characters # <<>>
  /\ locations # <<>>
  /\ \A k \in 1 .. Len(characters) : characters[k].id # last.id

\* The ids of the beats of a chapter, in their order.
BeatOrder(ch) == [j \in 1 .. Len(ch.beats) |-> ch.beats[j].id]

\* The chapters of `old` are the first chapters of `new`, in their order,
\* each with its beats in their order.
OrderKept(old, new) ==
  /\ Len(new) >= Len(old)
  /\ \A k \in 1 .. Len(old) :
       /\ new[k].id = old[k].id
       /\ BeatOrder(new[k]) = BeatOrder(old[k])

\* C15: every step that changes the store keeps the chapters that were in
\* it in their order, each with its beats in their order, and places every
\* chapter it inserts after them.
C15_OrderPreserved ==
  [][OrderKept(chapters, chapters')]_vars

\* C17: updateBeatDraft(chapterId, beatId, text) with both ids present sets
\* the draft of one beat, the identified one, to text and changes nothing
\* else in any chapter: no other beat, no other field of that beat, no
\* title.
C17_DraftSetsOneBeat ==
  [][(/\ last'.op = "updateBeatDraft"
      /\ HasBeat(chapters, last'.chapterId, last'.beatId)) =>
       \A t \in TextLens :
         updateBeatDraft(last'.chapterId, last'.beatId, t) =>
           \E i \in 1 .. Len(chapters) :
             \E j \in 1 .. Len(chapters[i].beats) :
               /\ chapters[i].id = last'.chapterId
               /\ chapters[i].beats[j].id = last'.beatId
               /\ chapters' = [chapters EXCEPT ![i].beats[j].draft = t]]_vars

\* C16: when the gateway call of an import or of an analysis fails, the
\* loading flag is false once the failure has been received, and chapters,
\* characters, locations, lore and the stored analysis are what they were.
C16_FailureClearsLoading ==
  [][(/\ last'.op \in {"import.settled", "runAnalysis.settled"}
      /\ last'.response \in {"reject", "malformed"}) =>
       /\ loading' = FALSE
       /\ UNCHANGED <<chapters, characters, locations, lore, analysis>>]_vars

\* An import's gateway call has failed with a chapter in the store and an
\* earlier analysis result stored.
C16_Witness ==
  /\ last.op = "import.settled"
  /\ last.response = "reject"
  /\ chapters # <<>>
  /\ analysis # "null"

\* A gateway request of an import or of an analysis is pending.
GatewayPending ==
  \E i \in 1 .. Len(inflight) : inflight[i].kind \in {"extract", "analysis"}

\* C18: whenever the gateway request of an analysis or of an import is
\* pending, the loading flag is true.
C18_LoadingWhilePending ==
  GatewayPending => loading

\* `new` is `old` but for the imageUrl of the entities of the id: no entity
\* is dropped or added, every entity keeps every other field, and the
\* entities of other ids are unchanged.
OnlyImageOf(old, new, id) ==
  /\ Len(new) = Len(old)
  /\ \A k \in 1 .. Len(old) :
       /\ new[k].id = old[k].id
       /\ new[k].name = old[k].name
       /\ new[k].description = old[k].description
       /\ old[k].id # id => new[k] = old[k]

\* C19: when an image request settles, the write-back changes nothing but
\* the imageUrl of the entity it was made for: that entity has the name and
\* description the user typed last, also while the request was pending, and
\* every entity added or edited in the meantime is kept as it is.
C19_EditsSurviveImage ==
  [][last'.op = "triggerVisual.settled" =>
       IF last'.type = "character"
         THEN /\ OnlyImageOf(characters, characters', last'.id)
              /\ \A k \in 1 .. Len(characters) :
                   characters'[k].role = characters[k].role
              /\ UNCHANGED locations
         ELSE /\ OnlyImageOf(locations, locations', last'.id)
              /\ \A k \in 1 .. Len(locations) :
                   locations'[k].atmosphere = locations[k].atmosphere
              /\ UNCHANGED characters]_vars

\* An image has been written to a character that was renamed while its
\* request was pending, in a store that holds another character.
C19_Witness ==
  /\ last.op = "triggerVisual.settled"
  /\ last.response = "url"
  /\ last.edited
  /\ \E k \in 1 .. Len(characters) :
       /\ characters[k].id = last.id
       /\ characters[k].name \in EntityTexts
       /\ characters[k].imageUrl # ""
  /\ \E k \in 1 .. Len(characters) : characters[k].id # last.id

====
